---- MODULE Spec2Model ----
(***************************************************************************)
(* A model of PPlab1_Basharov.py: an electronics store (EStore) made of    *)
(* Warehouses holding Products and Workers, Customers, and Orders that     *)
(* consume a Product's stock, with a JSON and an XML export.               *)
(*                                                                         *)
(* Python objects are modelled by identity: a Product, Order, Warehouse,   *)
(* Customer or Worker is an index into a heap of records, and a list holds *)
(* indices, so that two lists (or an Order and a Warehouse) can share one  *)
(* Product object and see each other's writes, as in the program.          *)
(***************************************************************************)
EXTENDS Integers, Sequences, FiniteSets, TLC

\* ----- bounds of the model -----
NumProducts == 2     \* Product objects the caller constructs
NumOrders == 2       \* Order objects the caller constructs
NumWarehouses == 2   \* Warehouse objects the caller constructs
MaxLen == 2          \* longest list the caller lets any collection grow to
MaxQty == 2          \* largest quantity a Product is constructed with
MaxOrderQty == 2     \* largest quantity an Order is constructed with

ProductIds == 1..NumProducts
OrderIds == 1..NumOrders
WarehouseIds == 1..NumWarehouses
CustomerIds == {1}
WorkerIds == {1}

Names == {"Laptop", "Phone"}
\* prices are floats with whole values, written here without the ".0"
Prices == {45000, 75000}

NoException == "none"
NoFile == <<"no file">>
NoView == <<>>

VARIABLES
    products,    \* heap of Product objects: id -> [name, price, quantity]
    customers,   \* heap of Customer objects: id -> [name, email]
    workers,     \* heap of Worker objects: id -> [name, role]
    orders,      \* heap of Order objects: id -> [customer, product, quantity]
    warehouses,  \* heap of Warehouse objects: id -> [location, products, workers]
    store,       \* the EStore: [name, warehouses, customers, orders, workers]
    view,        \* <<r>> when the caller holds the list r that get_products
                 \* returned, NoView before
    jsonFile,    \* content of the file written by save_to_json
    xmlFile,     \* content of the file written by save_to_xml
    last         \* the most recent call: [op, recv, raised, pre, again]

vars == <<products, customers, workers, orders, warehouses, store, view,
          jsonFile, xmlFile, last>>

\* ----- construction -----

\* Product.__init__
Product(name, price, quantity) ==
    [name |-> name, price |-> price, quantity |-> quantity]

\* Worker.__init__
Worker(name, role) == [name |-> name, role |-> role]

\* Customer.__init__
Customer(name, email) == [name |-> name, email |-> email]

\* Warehouse.__init__
Warehouse(location) == [location |-> location, products |-> <<>>, workers |-> <<>>]

\* Order.__init__
Order(customer, product, quantity) ==
    [customer |-> customer, product |-> product, quantity |-> quantity]

\* EStore.__init__
EStore(name) ==
    [name |-> name, warehouses |-> <<>>, customers |-> <<>>, orders |-> <<>>,
     workers |-> <<>>]

Locations == <<"Moscow", "Kazan", "Omsk">>

\* the record of a call: the operation, the object it was called on, the
\* exception it raised, the stock it found (process_order), and whether it
\* repeats a successful process_order on the same Order
Call(op, recv, raised, pre, again) ==
    [op |-> op, recv |-> recv, raised |-> raised, pre |-> pre, again |-> again]

\* sequences over S of length at most n
SeqsUpTo(S, n) == UNION {[1..k -> S] : k \in 0..n}

\* The objects the caller has constructed before the first method call, as in
\* the program's own driver: Products with a full stock (the first a Laptop,
\* the others a Laptop or a Phone), one Customer, one Worker who staffs the
\* first Warehouse, Orders of 1..MaxOrderQty units, and an empty EStore.
Objects ==
    /\ products \in [ProductIds -> [name : Names, price : {75000}, quantity : {MaxQty}]]
    /\ products[1].name = "Laptop"
    /\ customers = [c \in CustomerIds |-> Customer("Petr", "petr@mail.ru")]
    /\ workers = [k \in WorkerIds |-> Worker("Ivan", "manager")]
    /\ orders \in [OrderIds -> [customer : CustomerIds, product : ProductIds,
                                quantity : 1..MaxOrderQty]]
    /\ \A o \in OrderIds : orders[o].quantity = ((o - 1) % MaxOrderQty) + 1
    /\ view = NoView
    /\ jsonFile = NoFile
    /\ xmlFile = NoFile
    /\ last = Call("init", 0, NoException, 0, FALSE)

Init ==
    /\ Objects
    /\ warehouses = [w \in WarehouseIds |->
                        [Warehouse(Locations[w]) EXCEPT
                            !.workers = IF w = 1 THEN <<1>> ELSE <<>>]]
    /\ store = EStore("TechStore")

\* ----- Warehouse -----

\* Warehouse.add_product
AddProduct(w, p) ==
    /\ Len(warehouses[w].products) < MaxLen
    /\ warehouses' = [warehouses EXCEPT ![w].products = Append(@, p)]
    /\ last' = Call("add_product", w, NoException, 0, FALSE)
    /\ UNCHANGED <<products, customers, workers, orders, store, view, jsonFile, xmlFile>>

\* the loop with the assignment moved out of it: when no name matches, the
\* loop variable is left on the last Product
ScanFallsThrough(heap, ps, name, i) ==
    IF \E j \in i..Len(ps) : heap[ps[j]].name = name
    THEN CHOOSE j \in i..Len(ps) :
            /\ heap[ps[j]].name = name
            /\ \A k \in i..(j - 1) : heap[ps[k]].name # name
    ELSE Len(ps)

\* the loop without its "return": the last Product named name is the one kept
ScanLast(heap, ps, name, i) ==
    IF \E j \in i..Len(ps) : heap[ps[j]].name = name
    THEN CHOOSE j \in i..Len(ps) :
            /\ heap[ps[j]].name = name
            /\ \A k \in (j + 1)..Len(ps) : heap[ps[k]].name # name
    ELSE 0

\* the loop "for p in self.products: if p.name == name": the index of the
\* first Product of ps, from index i on, whose name is name; 0 if the loop ends
RECURSIVE Scan(_, _, _, _)
Scan(heap, ps, name, i) ==
    IF i > Len(ps) THEN 0
    ELSE IF heap[ps[i]].name = name THEN i
    ELSE Scan(heap, ps, name, i + 1)

\* list.remove(x): drops the first element that is x
RECURSIVE ListRemove(_, _)
ListRemove(s, x) ==
    IF s = <<>> THEN <<>>
    ELSE IF Head(s) = x THEN Tail(s)
    ELSE <<Head(s)>> \o ListRemove(Tail(s), x)

\* the assignment written to the wrong attribute: "p.quantity = new_price"
SetQuantity(heap, p, new_price) == [heap EXCEPT ![p].quantity = new_price]

\* the assignment "p.price = new_price" of update_product
SetPrice(heap, p, new_price) == [heap EXCEPT ![p].price = new_price]

\* Warehouse.update_product
UpdateProduct(w, name, new_price) ==
    LET ps == warehouses[w].products
        i == Scan(products, ps, name, 1)
    IN /\ IF i # 0
          THEN /\ products' = SetPrice(products, ps[i], new_price)
               /\ last' = Call("update_product", w, NoException, 0, FALSE)
          ELSE /\ products' = products
               /\ last' = Call("update_product", w, "ProductNotFoundError", 0, FALSE)
       /\ UNCHANGED <<customers, workers, orders, warehouses, store, view, jsonFile, xmlFile>>

\* the removal written as a filter on the name: every Product named like p goes
RemoveAllNamed(ps, p) ==
    SelectSeq(ps, LAMBDA q : products[q].name # products[p].name)

\* the statement "self.products.remove(p)" of remove_product
RemoveFound(ps, p) == ListRemove(ps, p)

\* Warehouse.remove_product
RemoveProduct(w, name) ==
    LET ps == warehouses[w].products
        i == Scan(products, ps, name, 1)
    IN /\ IF i # 0
          THEN /\ warehouses' = [warehouses EXCEPT ![w].products = RemoveFound(ps, ps[i])]
               /\ last' = Call("remove_product", w, NoException, 0, FALSE)
          ELSE /\ warehouses' = warehouses
               /\ last' = Call("remove_product", w, "ProductNotFoundError", 0, FALSE)
       /\ UNCHANGED <<products, customers, workers, orders, store, view, jsonFile, xmlFile>>

\* what get_products returns: a reference to the Warehouse's own list object
\* (named by the Warehouse that owns it), not a copy
ReturnedList(w) == w

\* Warehouse.get_products
GetProducts(w) ==
    /\ view' = <<ReturnedList(w)>>
    /\ last' = Call("get_products", w, NoException, 0, FALSE)
    /\ UNCHANGED <<products, customers, workers, orders, warehouses, store, jsonFile, xmlFile>>

\* the list a reference denotes
Deref(ref) == warehouses[ref].products

RECURSIVE Reverse(_)
Reverse(s) == IF s = <<>> THEN <<>> ELSE Append(Reverse(Tail(s)), Head(s))

\* the caller appends to the list it got from get_products
ViewAppend(p) ==
    /\ view # NoView
    /\ Len(Deref(view[1])) < MaxLen
    /\ warehouses' = [warehouses EXCEPT ![view[1]].products = Append(@, p)]
    /\ last' = Call("view_append", view[1], NoException, 0, FALSE)
    /\ UNCHANGED <<products, customers, workers, orders, store, view, jsonFile, xmlFile>>

\* the caller removes an element of the list it got from get_products
ViewRemove(p) ==
    /\ view # NoView
    /\ \E i \in 1..Len(Deref(view[1])) : Deref(view[1])[i] = p
    /\ warehouses' = [warehouses EXCEPT ![view[1]].products = ListRemove(@, p)]
    /\ last' = Call("view_remove", view[1], NoException, 0, FALSE)
    /\ UNCHANGED <<products, customers, workers, orders, store, view, jsonFile, xmlFile>>

\* the caller reverses the list it got from get_products
ViewReverse ==
    /\ view # NoView
    /\ warehouses' = [warehouses EXCEPT ![view[1]].products = Reverse(@)]
    /\ last' = Call("view_reverse", view[1], NoException, 0, FALSE)
    /\ UNCHANGED <<products, customers, workers, orders, store, view, jsonFile, xmlFile>>

\* ----- Order -----

\* the test written against the wrong attribute: "self.product.price"
InsufficientByPrice(heap, o) == orders[o].quantity > heap[orders[o].product].price

\* the test "self.quantity > self.product.quantity" of process_order
Insufficient(heap, o) == orders[o].quantity > heap[orders[o].product].quantity

\* the statement taking one unit whatever the Order asks for
DecrementByOne(heap, o) == [heap EXCEPT ![orders[o].product].quantity = @ - 1]

\* the statement behind an idempotency guard: an Order just processed is
\* not charged again
DecrementOnce(heap, o) ==
    IF last.op = "process_order" /\ last.recv = o /\ last.raised = NoException
    THEN heap
    ELSE [heap EXCEPT ![orders[o].product].quantity = @ - orders[o].quantity]

\* the statement "self.product.quantity -= self.quantity" of process_order
Decrement(heap, o) ==
    [heap EXCEPT ![orders[o].product].quantity = @ - orders[o].quantity]

\* Order.process_order
ProcessOrder(o) ==
    LET pre == products[orders[o].product].quantity
        again == last.op = "process_order" /\ last.recv = o /\ last.raised = NoException
    IN /\ IF Insufficient(products, o)
          THEN /\ products' = products
               /\ last' = Call("process_order", o, "InsufficientStockError", pre, again)
          ELSE /\ products' = Decrement(products, o)
               /\ last' = Call("process_order", o, NoException, pre, again)
       /\ UNCHANGED <<customers, workers, orders, warehouses, store, view, jsonFile, xmlFile>>

\* ----- the inventory and its orders -----

Next ==
    \/ \E w \in WarehouseIds, p \in ProductIds : AddProduct(w, p)
    \/ \E w \in WarehouseIds, n \in Names, x \in Prices : UpdateProduct(w, n, x)
    \/ \E w \in WarehouseIds, n \in Names : RemoveProduct(w, n)
    \/ \E w \in WarehouseIds : GetProducts(w)
    \/ \E p \in ProductIds : ViewAppend(p)
    \/ \E p \in ProductIds : ViewRemove(p)
    \/ ViewReverse
    \/ \E o \in OrderIds : ProcessOrder(o)

Spec == Init /\ [][Next]_vars

\* ----- properties of Order.process_order -----

\* C1: process_order on an Order of q units whose Product holds s units
\* succeeds and leaves s - q when q <= s, and raises InsufficientStockError
\* and leaves s when q > s.
C1_ProcessOrderContract ==
    [][\A o \in OrderIds :
          ProcessOrder(o) =>
              LET p == orders[o].product
                  q == orders[o].quantity
                  s == products[p].quantity
              IN /\ q <= s => /\ last'.raised = NoException
                              /\ products'[p].quantity = s - q
                 /\ q > s => /\ last'.raised = "InsufficientStockError"
                             /\ products'[p].quantity = s]_vars

\* the stock the Product of Order o holds
StockOf(o) == products[orders[o].product].quantity

\* an Order of 2 units has just been refused by a Product left with 1 unit
\* by an earlier, successful Order
C1_Witness ==
    /\ last.op = "process_order"
    /\ last.raised = "InsufficientStockError"
    /\ orders[last.recv].quantity = 2
    /\ StockOf(last.recv) = 1
    /\ last.pre = 1

\* C2: no Product ever has a negative quantity.
C2_QuantityNeverNegative == \A p \in ProductIds : products[p].quantity >= 0

\* a Product shared by both Orders has been sold out and then refused
C2_Witness ==
    /\ last.op = "process_order"
    /\ last.raised = "InsufficientStockError"
    /\ StockOf(last.recv) = 0
    /\ \A o \in OrderIds : orders[o].product = orders[last.recv].product

\* C8: a second process_order in a row on the same Order of q units, begun
\* with s units in stock, leaves s - 2q when s >= 2q; when q <= s < 2q it
\* raises InsufficientStockError and leaves s - q; the Order never changes.
C8_NoIdempotencyGuard ==
    [][\A o \in OrderIds :
          (/\ last.op = "process_order" /\ last.recv = o /\ last.raised = NoException
           /\ ProcessOrder(o))
          => LET p == orders[o].product
                 q == orders[o].quantity
                 s == last.pre
             IN /\ q <= s
                /\ s >= 2 * q => /\ last'.raised = NoException
                                 /\ products'[p].quantity = s - 2 * q
                /\ s < 2 * q => /\ last'.raised = "InsufficientStockError"
                                /\ products'[p].quantity = s - q
                /\ orders' = orders]_vars

\* the same Order of 1 unit has been processed twice in a row and took the
\* last 2 units
C8_Witness ==
    /\ last.op = "process_order"
    /\ last.again
    /\ last.raised = NoException
    /\ last.pre = 1
    /\ orders[last.recv].quantity = 1
    /\ StockOf(last.recv) = 0

\* process_order on o would raise InsufficientStockError
Rejecting(o) == orders[o].quantity > StockOf(o)

\* C10: no operation increases a Product's quantity or changes an Order, so an
\* Order that process_order refuses is refused by every later process_order.
C10_RejectionIsTerminal ==
    [][/\ \A p \in ProductIds : products'[p].quantity <= products[p].quantity
       /\ orders' = orders
       /\ \A o \in OrderIds :
             /\ Rejecting(o) => Rejecting(o)'
             /\ (ProcessOrder(o) /\ Rejecting(o)) =>
                    last'.raised = "InsufficientStockError"]_vars

\* an Order is still refused after its Product was repriced and taken off
\* the shelf of a Warehouse
C10_Witness ==
    /\ last.op = "process_order"
    /\ last.raised = "InsufficientStockError"
    /\ last.again = FALSE
    /\ products[orders[last.recv].product].price = 45000
    /\ \A w \in WarehouseIds : warehouses[w].products = <<>>

\* ----- properties of the Warehouse -----

\* the Products of Warehouse w
ProductsOf(w) == warehouses[w].products

\* the positions of w's list that hold a Product named n
Named(w, n) == {j \in 1..Len(ProductsOf(w)) : products[ProductsOf(w)[j]].name = n}

\* the first position of w's list that holds a Product named n
FirstNamed(w, n) == CHOOSE j \in Named(w, n) : \A k \in Named(w, n) : j <= k

\* C3, as claimed: after update_product(p.name, x) returns, every Product p of
\* the Warehouse with that name has price x, and its quantity is unchanged.
C3_EveryNamedProductUpdated ==
    [][\A w \in WarehouseIds, n \in Names, x \in Prices :
          (UpdateProduct(w, n, x) /\ last'.raised = NoException) =>
              \A j \in Named(w, n) :
                  /\ products'[ProductsOf(w)[j]].price = x
                  /\ products'[ProductsOf(w)[j]].quantity =
                         products[ProductsOf(w)[j]].quantity]_vars

\* C3, amended: after update_product(n, x) returns, the first Product of the
\* Warehouse named n has price x, every other Product object keeps its
\* price, and no Product's quantity or name changes.
C3_FirstNamedProductUpdated ==
    [][\A w \in WarehouseIds, n \in Names, x \in Prices :
          (UpdateProduct(w, n, x) /\ last'.raised = NoException) =>
              /\ Named(w, n) # {}
              /\ LET first == ProductsOf(w)[FirstNamed(w, n)]
                 IN /\ products'[first].price = x
                    /\ \A p \in ProductIds \ {first} :
                          products'[p].price = products[p].price
              /\ \A p \in ProductIds :
                    /\ products'[p].quantity = products[p].quantity
                    /\ products'[p].name = products[p].name]_vars

\* update_product has just repriced the first of two distinct Laptops of a
\* Warehouse; the second keeps the old price
C3_Witness ==
    /\ last.op = "update_product"
    /\ last.raised = NoException
    /\ LET ps == ProductsOf(last.recv)
       IN /\ Len(ps) = 2
          /\ ps[1] # ps[2]
          /\ products[ps[1]].name = products[ps[2]].name
          /\ products[ps[1]].price = 45000
          /\ products[ps[2]].price = 75000

\* C4: update_product and remove_product with a name no Product of the
\* Warehouse has raise ProductNotFoundError and leave every Warehouse's lists
\* and every Product as they were.
C4_NotFoundLeavesWarehouse ==
    [][\A w \in WarehouseIds, n \in Names :
          Named(w, n) = {} =>
              /\ \A x \in Prices :
                    UpdateProduct(w, n, x) =>
                        /\ last'.raised = "ProductNotFoundError"
                        /\ warehouses' = warehouses
                        /\ products' = products
              /\ RemoveProduct(w, n) =>
                    /\ last'.raised = "ProductNotFoundError"
                    /\ warehouses' = warehouses
                    /\ products' = products]_vars

\* remove_product("Phone") has just failed on a Warehouse holding only a Laptop
C4_Witness ==
    /\ last.op = "remove_product"
    /\ last.raised = "ProductNotFoundError"
    /\ Len(ProductsOf(last.recv)) = 1
    /\ products[ProductsOf(last.recv)[1]].name = "Laptop"

\* C5, as claimed: what the caller does to the list it got from get_products
\* changes no Warehouse's own product collection.
C5_ViewIsReadOnly ==
    [][last'.op \in {"view_append", "view_remove", "view_reverse"} =>
          \A w \in WarehouseIds : ProductsOf(w)' = ProductsOf(w)]_vars

\* C9: remove_product(n) on a Warehouse holding a Product named n returns and
\* removes the first such Product only: the others keep their order, no
\* Product changes, the workers and the other Warehouses are unchanged.
C9_RemovesFirstNamedOnly ==
    [][\A w \in WarehouseIds, n \in Names :
          (RemoveProduct(w, n) /\ Named(w, n) # {}) =>
              LET ps == ProductsOf(w)
                  j == FirstNamed(w, n)
              IN /\ last'.raised = NoException
                 /\ Len(ProductsOf(w)') = Len(ps) - 1
                 /\ \A k \in 1..(Len(ps) - 1) :
                       ProductsOf(w)'[k] = IF k < j THEN ps[k] ELSE ps[k + 1]
                 /\ products' = products
                 /\ warehouses'[w].workers = warehouses[w].workers
                 /\ \A v \in WarehouseIds \ {w} : warehouses'[v] = warehouses[v]]_vars

\* remove_product has just taken a Product from a staffed Warehouse, leaving
\* one of the same name behind
C9_Witness ==
    /\ last.op = "remove_product"
    /\ last.raised = NoException
    /\ warehouses[last.recv].workers # <<>>
    /\ ProductsOf(last.recv) = <<NumProducts>>
    /\ products[NumProducts].name = products[1].name

\* ----- EStore: exports -----

\* the entry with the values of price and quantity exchanged
JsonProductSwapped(p) ==
    [name |-> products[p].name, price |-> products[p].quantity,
     quantity |-> products[p].price]

\* one entry of the list comprehension over w.products in save_to_json
JsonProduct(p) ==
    [name |-> products[p].name, price |-> products[p].price,
     quantity |-> products[p].quantity]

\* one entry of the list comprehension over w.workers in save_to_json
JsonWorker(k) == [name |-> workers[k].name, role |-> workers[k].role]

\* one entry of the list comprehension over self.warehouses in save_to_json
JsonWarehouse(w) ==
    [location |-> warehouses[w].location,
     products |-> [j \in 1..Len(warehouses[w].products) |->
                      JsonProduct(warehouses[w].products[j])],
     workers |-> [j \in 1..Len(warehouses[w].workers) |->
                     JsonWorker(warehouses[w].workers[j])]]

\* one entry of the list comprehension over self.customers in save_to_json
JsonCustomer(c) == [name |-> customers[c].name, email |-> customers[c].email]

\* one entry of the list comprehension over self.orders in save_to_json
JsonOrder(o) ==
    [customer |-> customers[orders[o].customer].name,
     product |-> products[orders[o].product].name,
     quantity |-> orders[o].quantity]

\* the dictionary "data" of save_to_json
JsonData ==
    [name |-> store.name,
     warehouses |-> [i \in 1..Len(store.warehouses) |-> JsonWarehouse(store.warehouses[i])],
     customers |-> [i \in 1..Len(store.customers) |-> JsonCustomer(store.customers[i])],
     orders |-> [i \in 1..Len(store.orders) |-> JsonOrder(store.orders[i])]]

\* EStore.save_to_json: the file is opened with mode "w" and holds the dump of data
SaveToJson ==
    /\ jsonFile' = JsonData
    /\ last' = Call("save_to_json", 0, NoException, 0, FALSE)
    /\ UNCHANGED <<products, customers, workers, orders, warehouses, store, view, xmlFile>>

Digits == <<"0", "1", "2", "3", "4", "5", "6", "7", "8", "9">>

\* str() of an int: its decimal digits, with a sign when negative
RECURSIVE StrInt(_)
StrInt(n) ==
    IF n < 0 THEN "-" \o StrInt(0 - n)
    ELSE IF n < 10 THEN Digits[n + 1]
    ELSE StrInt(n \div 10) \o Digits[(n % 10) + 1]

\* str() of a float with a whole value (below 1e16): the digits and ".0"
StrFloat(x) == StrInt(x) \o ".0"

\* ET.Element / ET.SubElement: a tag, its attributes, its child elements
Element(tag, attrib, children) ==
    [tag |-> tag, attrib |-> attrib, children |-> children]

\* the SubElement(w_el, "product", ...) of save_to_xml
XmlProduct(p) ==
    Element("product",
            [name |-> products[p].name, price |-> StrFloat(products[p].price),
             quantity |-> StrInt(products[p].quantity)],
            <<>>)

\* the inner loop "completed" with a second loop over w.workers
XmlWarehouseChildrenWithWorkers(w) ==
    [j \in 1..Len(warehouses[w].products) |-> XmlProduct(warehouses[w].products[j])]
    \o [j \in 1..Len(warehouses[w].workers) |->
           Element("worker",
                   [name |-> workers[warehouses[w].workers[j]].name,
                    role |-> workers[warehouses[w].workers[j]].role],
                   <<>>)]

\* the children the inner loop of save_to_xml gives a warehouse element
XmlWarehouseChildren(w) ==
    [j \in 1..Len(warehouses[w].products) |-> XmlProduct(warehouses[w].products[j])]

\* the SubElement(root, "warehouse", ...) of save_to_xml with its children
XmlWarehouse(w) ==
    Element("warehouse", [location |-> warehouses[w].location], XmlWarehouseChildren(w))

\* the element "root" of save_to_xml when the tree is written
XmlRoot ==
    Element("estore", [name |-> store.name],
            [i \in 1..Len(store.warehouses) |-> XmlWarehouse(store.warehouses[i])])

\* EStore.save_to_xml
SaveToXml ==
    /\ xmlFile' = XmlRoot
    /\ last' = Call("save_to_xml", 0, NoException, 0, FALSE)
    /\ UNCHANGED <<products, customers, workers, orders, warehouses, store, view, jsonFile>>

\* ----- the store and its exports -----

\* A store the caller has populated: each Warehouse holds up to MaxLen of the
\* Products, the EStore lists up to MaxLen Warehouses and Orders, and either
\* nobody or the Customer and the Worker.
InitExport ==
    /\ Objects
    /\ products[NumProducts].name = "Phone"
    /\ \A o \in OrderIds : orders[o].product = ((o - 1) % NumProducts) + 1
    /\ \E ps \in [WarehouseIds -> SeqsUpTo(ProductIds, MaxLen)] :
          warehouses = [w \in WarehouseIds |->
                           [Warehouse(Locations[w]) EXCEPT
                               !.products = ps[w],
                               !.workers = IF w = 1 THEN <<1>> ELSE <<>>]]
    /\ \E ws \in SeqsUpTo(WarehouseIds, MaxLen), os \in SeqsUpTo(OrderIds, MaxLen),
          staffed \in BOOLEAN :
          store = [EStore("TechStore") EXCEPT
                      !.warehouses = ws,
                      !.orders = os,
                      !.customers = IF staffed THEN <<1>> ELSE <<>>,
                      !.workers = IF staffed THEN <<1>> ELSE <<>>]

NextExport ==
    \/ \E o \in OrderIds : ProcessOrder(o)
    \/ SaveToJson
    \/ SaveToXml

SpecExport == InitExport /\ [][NextExport]_vars

\* ----- properties of the exports -----

\* the entities save_to_json and save_to_xml read
Entities == <<products, customers, workers, orders, warehouses, store>>

\* C6: save_to_json writes one warehouses entry per Warehouse of the EStore, in
\* order, each with one products entry per Product of the Warehouse, in order,
\* holding the Product's current name, price and quantity, and one orders
\* entry per Order holding the Customer's name, the Product's name and the
\* quantity ordered; it changes no entity.
C6_JsonIsTheStoreAtCallTime ==
    [][SaveToJson =>
          LET d == jsonFile'
          IN /\ d.name = store.name
             /\ Len(d.warehouses) = Len(store.warehouses)
             /\ \A i \in 1..Len(store.warehouses) :
                   LET w == warehouses[store.warehouses[i]]
                       e == d.warehouses[i]
                   IN /\ e.location = w.location
                      /\ Len(e.products) = Len(w.products)
                      /\ \A j \in 1..Len(w.products) :
                            /\ e.products[j].name = products[w.products[j]].name
                            /\ e.products[j].price = products[w.products[j]].price
                            /\ e.products[j].quantity = products[w.products[j]].quantity
             /\ Len(d.orders) = Len(store.orders)
             /\ \A k \in 1..Len(store.orders) :
                   LET o == orders[store.orders[k]]
                   IN /\ d.orders[k].customer = customers[o.customer].name
                      /\ d.orders[k].product = products[o.product].name
                      /\ d.orders[k].quantity = o.quantity
             /\ Entities' = Entities]_vars

\* the file just written lists two Warehouses, an Order, and a Product whose
\* quantity an earlier process_order has reduced
C6_Witness ==
    /\ last.op = "save_to_json"
    /\ Len(jsonFile.warehouses) = 2
    /\ jsonFile.warehouses[1].location # jsonFile.warehouses[2].location
    /\ Len(jsonFile.orders) >= 1
    /\ \E i \in 1..2 : \E j \in 1..Len(jsonFile.warehouses[i].products) :
          jsonFile.warehouses[i].products[j].quantity < MaxQty

\* the number a decimal text denotes
RECURSIVE DecimalValue(_)
DecimalValue(text) ==
    IF Len(text) = 0 THEN 0
    ELSE LET lastChar == SubSeq(text, Len(text), Len(text))
             d == CHOOSE k \in 0..9 : Digits[k + 1] = lastChar
         IN 10 * DecimalValue(SubSeq(text, 1, Len(text) - 1)) + d

\* the tags of an element and of the elements two levels below it
Tags(el) ==
    {el.tag}
    \cup {el.children[i].tag : i \in 1..Len(el.children)}
    \cup UNION {{el.children[i].children[j].tag : j \in 1..Len(el.children[i].children)} :
                   i \in 1..Len(el.children)}

\* C7: save_to_xml writes a root element with the EStore's name, one
\* warehouse child per Warehouse with its location, under it one childless
\* product element per Product with its name, price and quantity as decimal
\* text, and no element for a Worker, a Customer or an Order.
C7_XmlHoldsWarehousesAndProductsOnly ==
    [][SaveToXml =>
          LET root == xmlFile'
          IN /\ root.tag = "estore"
             /\ root.attrib = [name |-> store.name]
             /\ Len(root.children) = Len(store.warehouses)
             /\ \A i \in 1..Len(store.warehouses) :
                   LET w == warehouses[store.warehouses[i]]
                       e == root.children[i]
                   IN /\ e.tag = "warehouse"
                      /\ e.attrib = [location |-> w.location]
                      /\ Len(e.children) = Len(w.products)
                      /\ \A j \in 1..Len(w.products) :
                            LET c == e.children[j]
                                p == products[w.products[j]]
                            IN /\ c.tag = "product"
                               /\ c.children = <<>>
                               /\ DOMAIN c.attrib = {"name", "price", "quantity"}
                               /\ c.attrib.name = p.name
                               /\ LET n == Len(c.attrib.price)
                                  IN /\ n > 2
                                     /\ SubSeq(c.attrib.price, n - 1, n) = ".0"
                                     /\ DecimalValue(SubSeq(c.attrib.price, 1, n - 2))
                                            = p.price
                               /\ DecimalValue(c.attrib.quantity) = p.quantity
             /\ Tags(root) \subseteq {"estore", "warehouse", "product"}
             /\ Entities' = Entities]_vars

\* the file just written has one warehouse element with two product elements,
\* for a staffed Warehouse of an EStore that lists a Customer, a Worker and
\* an Order
C7_Witness ==
    /\ last.op = "save_to_xml"
    /\ Len(xmlFile.children) = 1
    /\ Len(xmlFile.children[1].children) = 2
    /\ warehouses[store.warehouses[1]].workers # <<>>
    /\ store.customers # <<>>
    /\ store.workers # <<>>
    /\ store.orders # <<>>

====
